---- MODULE Spec2Model ----
(***************************************************************************)
(* Typefont: recognition of the font of a text in an image.                *)
(*                                                                         *)
(* The model follows one matching pass of Typefont (_recognize): the       *)
(* preparation (image load, OCR with its timeout, fonts index), the        *)
(* per-font fan-out (fetch, _symbolsToDomain, _compare), the per-symbol    *)
(* fan-out inside _compare, and the two completion counters that join      *)
(* them.  JavaScript numbers are kept exact as rationals [n, d]; the       *)
(* value 0/0 stands for NaN.                                               *)
(***************************************************************************)
EXTENDS Integers, Sequences, FiniteSets, TLC

(***************************************************************************)
(* Exact arithmetic for the similarity percentages.                        *)
(***************************************************************************)
RECURSIVE GCD(_, _)
GCD(x, y) == IF y = 0 THEN x ELSE GCD(y, x % y)

Abs(x) == IF x < 0 THEN 0 - x ELSE x

NaN == [n |-> 0, d |-> 0]

IsNaN(q) == q.d = 0

\* n / d as a number in lowest terms; a zero divisor under a zero dividend is NaN.
Rat(n, d) ==
    IF d = 0 THEN NaN
    ELSE LET g == GCD(Abs(n), Abs(d))
             s == IF d < 0 THEN 0 - 1 ELSE 1
         IN  [n |-> (s * n) \div g, d |-> (s * d) \div g]

Num(k) == [n |-> k, d |-> 1]

RAdd(p, q) == IF IsNaN(p) \/ IsNaN(q) THEN NaN ELSE Rat(p.n * q.d + q.n * p.d, p.d * q.d)

RSub(p, q) == IF IsNaN(p) \/ IsNaN(q) THEN NaN ELSE Rat(p.n * q.d - q.n * p.d, p.d * q.d)

RMul(p, q) == IF IsNaN(p) \/ IsNaN(q) THEN NaN ELSE Rat(p.n * q.n, p.d * q.d)

RDiv(p, q) == IF IsNaN(p) \/ IsNaN(q) THEN NaN ELSE Rat(p.n * q.d, p.d * q.n)

\* p < q, p > q as JavaScript compares numbers: every comparison with NaN is false.
RLess(p, q) == ~IsNaN(p) /\ ~IsNaN(q) /\ p.n * q.d < q.n * p.d

RLeq(p, q) == ~IsNaN(p) /\ ~IsNaN(q) /\ p.n * q.d <= q.n * p.d

(***************************************************************************)
(* JavaScript objects used as string-keyed maps.                           *)
(***************************************************************************)
Undefined == "<undefined>"

EmptyObject == [k \in {} |-> Undefined]

Keys(obj) == DOMAIN obj

\* obj[key]
Get(obj, key) == IF key \in DOMAIN obj THEN obj[key] ELSE Undefined

\* !!v for the values a glyph set holds (strings or undefined)
Truthy(v) == v # Undefined /\ v # ""

\* obj after "delete obj[k]" for every own key k outside keep
Restrict(obj, keep) == [k \in (DOMAIN obj) \cap keep |-> obj[k]]

\* obj after "obj[key] = val"
Put(obj, key, val) == [k \in (DOMAIN obj) \cup {key} |-> IF k = key THEN val ELSE obj[k]]

(***************************************************************************)
(* Images.  A glyph image is a data URL; Pixels gives the red channel of   *)
(* the picture it decodes to, row by row.  The payload "" decodes to no    *)
(* picture: loading it fails.                                              *)
(***************************************************************************)
DataUrl(payload) == "data:image/png;base64," \o payload

Pixels(url) ==
    CASE url = DataUrl("W") -> << <<255, 255>>, <<255, 255>> >>
      [] url = DataUrl("B") -> << <<0, 0>>, <<0, 0>> >>
      [] url = DataUrl("G") -> << <<255, 128>>, <<255, 255>> >>
      [] OTHER -> << >>

Loads(url) == Pixels(url) # << >>

(***************************************************************************)
(* ImageDrawing.draw(url, 1, w, h): the picture scaled onto a canvas of    *)
(* w x h pixels (its own size where w or h is 0 or missing), sampled at    *)
(* the nearest source pixel.  The canvas is [width, height, data], data    *)
(* being the red channel in row-major order as getImageData returns it.    *)
(***************************************************************************)
drawPicture(src, w, h) ==
    LET srcH   == Len(src)
        srcW   == Len(src[1])
        width  == IF w # 0 THEN w ELSE srcW
        height == IF h # 0 THEN h ELSE srcH
    IN  [width  |-> width,
         height |-> height,
         data   |-> [i \in 1..(width * height) |->
                        src[(((i - 1) \div width) * srcH) \div height + 1]
                           [(((i - 1) % width) * srcW) \div width + 1]]]

draw(url, w, h) == drawPicture(Pixels(url), w, h)

\* The option perceptualComparisonSize the pass is run with.
perceptualComparisonSize == 2

\* ShapePerception._prepareImages: both pictures drawn at size x size.
prepareImages(first, second) ==
    LET size == perceptualComparisonSize
    IN  <<draw(first, size, size), draw(second, size, size)>>

\* The same on two decoded pictures, for any value of the option.
preparePictures(src, src1, size) ==
    <<drawPicture(src, size, size), drawPicture(src1, size, size)>>

\* ShapePerception._getBinarizedMatrix: a row is opened every width pixels,
\* a cell is 1 where the red channel is 255 and 0 elsewhere.
getBinarizedMatrix(img) ==
    LET width == img.width
        ll    == Len(img.data)
        rows  == (ll + width - 1) \div width
    IN  [j \in 1..rows |->
            [w \in 1..(IF j * width <= ll THEN width ELSE ll - (j - 1) * width) |->
                IF img.data[(j - 1) * width + w] = 255 THEN 1 ELSE 0]]

\* m[i][j] for a row m[i] that exists: the cell, or undefined (-1) past
\* the end of the row.
Cell(m, i, j) == IF j <= Len(m[i]) THEN m[i][j] ELSE 0 - 1

\* As the loop would count with == in the place of !=.
HammingAgreement(matrix, matrix1) ==
    Cardinality({p \in (1..Len(matrix)) \X (1..Len(matrix[1])) :
                    Cell(matrix, p[1], p[2]) = Cell(matrix1, p[1], p[2])})

\* The Hamming loop of ShapePerception._compare over r x c cells, r and c
\* being those of the first matrix.
HammingDistance(matrix, matrix1) ==
    LET r == Len(matrix)
        c == Len(matrix[1])
    IN  Cardinality({p \in (1..r) \X (1..c) :
                        Cell(matrix, p[1], p[2]) # Cell(matrix1, p[1], p[2])})

\* As the similarity would be with the distance divided by r instead of r * c.
shapeSimilarityPerRow(matrix, matrix1) ==
    RSub(Num(100), RMul(RDiv(Num(HammingDistance(matrix, matrix1)), Num(Len(matrix))),
                        Num(100)))

\* The similarity ShapePerception._compare resolves with:
\* 100 - (dist / (r * c) * 100).
shapeSimilarity(matrix, matrix1) ==
    LET r    == Len(matrix)
        c    == Len(matrix[1])
        dist == HammingDistance(matrix, matrix1)
    IN  RSub(Num(100), RMul(RDiv(Num(dist), Num(r * c)), Num(100)))

\* The handler of _prepareImages' promise in ShapePerception._compare on
\* the two canvases: the two matrices, and the similarity it resolves with
\* unless the loop reads a row the second matrix does not have, which
\* throws and rejects.
shapeCompare(res) ==
    LET matrix  == getBinarizedMatrix(res[1])
        matrix1 == getBinarizedMatrix(res[2])
    IN  IF Len(matrix1) < Len(matrix)
        THEN [matrix |-> matrix, matrix1 |-> matrix1, ok |-> FALSE]
        ELSE [matrix |-> matrix, matrix1 |-> matrix1, ok |-> TRUE,
              similarity |-> shapeSimilarity(matrix, matrix1)]

\* ShapePerception._compare on two pictures that load.
ShapePerception(first, second) == shapeCompare(prepareImages(first, second)).similarity

\* Jimp.diff(img, img1, 0.5).percent: the share of the pixels whose
\* normalised difference exceeds the threshold 0.5.
JimpDiffPercent(img, img1) ==
    LET h == Len(img)
        w == Len(img[1])
        differ == {p \in (1..h) \X (1..w) :
                      2 * Abs(img[p[1]][p[2]] - img1[p[1]][p[2]]) > 255}
    IN  Rat(Cardinality(differ), h * w)

\* AnalyticPerception._compare once both pictures are read:
\* 100 - (percent * 100).
AnalyticPerception(first, second) ==
    RSub(Num(100), RMul(JimpDiffPercent(Pixels(first), Pixels(second)), Num(100)))

(***************************************************************************)
(* What the Promise.all of the two comparators settles to for one symbol:  *)
(* a SymbolScore, or the rejection of whichever picture does not load.     *)
(***************************************************************************)
CompareSymbol(first, second) ==
    IF ~Loads(first) THEN [ok |-> FALSE, reason |-> "Unable to load " \o first]
    ELSE IF ~Loads(second) THEN [ok |-> FALSE, reason |-> "Unable to load " \o second]
    ELSE [ok |-> TRUE,
          score |-> [analytic |-> AnalyticPerception(first, second),
                     shape    |-> ShapePerception(first, second)]]

(***************************************************************************)
(* Typefont._symbolsToBase64: the crops of the symbols whose confidence    *)
(* reaches minSymbolConfidence, keyed by their text; a later symbol with   *)
(* the same text replaces the earlier one.  A symbol is                    *)
(* [text, confidence, crop], crop being what img.crop returns for its      *)
(* bounding box.                                                           *)
(***************************************************************************)
minSymbolConfidence == 15

\* As the loop body would be without the confidence condition.
acceptSymbolAlways(data, symbol, least) == Put(data, symbol.text, symbol.crop)

\* As the loop body would be if it skipped a letter it has stored before.
acceptSymbolOnce(data, symbol, least) ==
    IF symbol.confidence >= least /\ symbol.text \notin Keys(data)
    THEN Put(data, symbol.text, symbol.crop)
    ELSE data

\* The body of the loop: data[symbol.text] = img.crop(...) for a symbol of
\* at least the minimum confidence.
acceptSymbol(data, symbol, least) ==
    IF symbol.confidence >= least
    THEN Put(data, symbol.text, symbol.crop)
    ELSE data

\* The loop over res.symbols from the i-th on, for a minimum confidence.
RECURSIVE symbolsToBase64From(_, _, _, _)
symbolsToBase64From(symbols, i, data, least) ==
    IF i > Len(symbols) THEN data
    ELSE symbolsToBase64From(symbols, i + 1, acceptSymbol(data, symbols[i], least), least)

\* _symbolsToBase64 with options.minSymbolConfidence given.
symbolsToBase64With(res, least) == symbolsToBase64From(res, 1, EmptyObject, least)

\* _symbolsToBase64 with the default of the option.
symbolsToBase64(res) == symbolsToBase64With(res, minSymbolConfidence)

(***************************************************************************)
(* Typefont._symbolsToDomain(first, second): both loops, each deleting     *)
(* the keys whose value in the other object is falsy.  The pair of the     *)
(* two objects as they are left.                                           *)
(***************************************************************************)
\* As _symbolsToDomain would be without its second loop.
symbolsToDomainFirstOnly(first, second) ==
    <<Restrict(first, {key \in Keys(first) : Truthy(Get(second, key))}), second>>

\* As _symbolsToDomain would be if it also stored, under each key the
\* first object keeps, the value the second object has there.
symbolsToDomainCopying(first, second) ==
    LET kept == {key \in Keys(first) : Truthy(Get(second, key))}
    IN  <<[key \in kept |-> second[key]],
          Restrict(second, {key \in Keys(second) : key \in kept})>>

symbolsToDomain(first, second) ==
    LET first1  == Restrict(first, {key \in Keys(first) : Truthy(Get(second, key))})
        second1 == Restrict(second, {key \in Keys(second) : Truthy(Get(first1, key))})
    IN  <<first1, second1>>

(***************************************************************************)
(* Typefont._average over an aggregate: the sum of (analytic + shape) / 2  *)
(* divided by the number of symbols; 0 / 0 for the empty aggregate.        *)
(***************************************************************************)
RECURSIVE SumScores(_, _)
SumScores(res, todo) ==
    IF todo = {} THEN Num(0)
    ELSE LET symbol == CHOOSE s \in todo : TRUE
         IN  RAdd(RDiv(RAdd(res[symbol].analytic, res[symbol].shape), Num(2)),
                  SumScores(res, todo \ {symbol}))

\* As the mean would be with the count of symbols starting at one.
averageOverOneMore(res) ==
    RDiv(SumScores(res, Keys(res)), Num(Cardinality(Keys(res)) + 1))

average(res) ==
    LET calc == SumScores(res, Keys(res))
        ll   == Cardinality(Keys(res))
    IN  RDiv(calc, Num(ll))

(***************************************************************************)
(* result.sort((a, b) => b.similarity - a.similarity): a stable insertion  *)
(* sort; an element moves in front of another only where the comparator    *)
(* is positive, that is where its similarity is the larger one.            *)
(***************************************************************************)
RECURSIVE InsertSorted(_, _)
InsertSorted(sorted, x) ==
    IF sorted = << >> THEN <<x>>
    ELSE LET last == sorted[Len(sorted)]
         IN  IF RLess(last.similarity, x.similarity)
             THEN Append(InsertSorted(SubSeq(sorted, 1, Len(sorted) - 1), x), last)
             ELSE Append(sorted, x)

\* As the result would be left without the call of sort.
sortOmitted(result) == result

RECURSIVE sort(_)
sort(result) ==
    IF result = << >> THEN << >>
    ELSE InsertSorted(sort(SubSeq(result, 1, Len(result) - 1)), result[Len(result)])

(***************************************************************************)
(* The inputs of a pass.                                                   *)
(***************************************************************************)
Symbol(text, confidence, crop) ==
    [text |-> text, confidence |-> confidence, crop |-> DataUrl(crop)]

\* What the OCR engine may return for the image: res.symbols.
OcrResults ==
    { <<Symbol("a", 90, "W"), Symbol("b", 80, "B")>>,
      <<Symbol("a", 90, "B"), Symbol("a", 60, "W"), Symbol("b", 10, "B")>>,
      << >> }

Object1(k, v) == Put(EmptyObject, k, v)

Object2(k, v, k1, v1) == Put(Object1(k, v), k1, v1)

\* A font data file as it is fetched: the request fails, or it yields the
\* parsed document, a record with its "meta" and "alpha" members where the
\* file has them.  The alpha values are the bare base64 payloads.
Fetched(content) == [fetched |-> TRUE, content |-> content]

\* The request fails.
NoFont == [fetched |-> FALSE]

\* A document without alpha.
NoAlphaFont == Fetched([meta |-> Object1("author", "A")])

\* The glyphs of the first OCR result.
SameFont ==
    Fetched([meta  |-> Object2("name", "Same", "author", "A"),
             alpha |-> Object2("a", "W", "b", "B")])

\* The same keys, every glyph the inverse of the recognized one.
InverseFont ==
    Fetched([meta  |-> Object1("author", "B"),
             alpha |-> Object2("a", "B", "b", "W")])

\* One key only, and no meta.
SingleFont == Fetched([alpha |-> Object1("a", "W")])

\* One glyph alike, one different.
MixedFont ==
    Fetched([meta  |-> Object1("name", "Mixed"),
             alpha |-> Object2("a", "W", "b", "G")])

\* No key the OCR results have.
OtherFont ==
    Fetched([meta  |-> Object1("name", "Other"),
             alpha |-> Object1("c", "W")])

\* A glyph that does not load.
BrokenFont ==
    Fetched([meta  |-> Object1("name", "Broken"),
             alpha |-> Object2("a", "W", "b", "")])

FontDocuments ==
    {NoFont, NoAlphaFont, SameFont, InverseFont, SingleFont, MixedFont, OtherFont,
     BrokenFont}

\* Whether a parsed document has the member.
Has(content, member) == member \in DOMAIN content

\* The largest fonts index of the model.
MaxFonts == 2

RECURSIVE SeqsUpTo(_, _)
SeqsUpTo(S, n) ==
    IF n = 0 THEN { << >> }
    ELSE LET shorter == SeqsUpTo(S, n - 1)
         IN  shorter \cup {Append(q, x) : q \in {r \in shorter : Len(r) = n - 1}, x \in S}

\* The corpus: the font documents behind the names of the fonts index,
\* in index order.
Corpora == SeqsUpTo(FontDocuments, MaxFonts)

\* The i-th name of the fonts index.
FontName(i) == "Font" \o ToString(i)

FontUrl(i) == "storage/fonts/" \o FontName(i) \o "/data.json"

ImageUrl == "image.png"

IndexUrl == "storage/index.json"

(***************************************************************************)
(* The state of a pass.                                                    *)
(***************************************************************************)
VARIABLES
    ocr,          \* input: the symbols the OCR engine returns for the image
    corpus,       \* input: the font documents of the corpus
    progress,     \* input: whether options.progress is given
    imgStep,      \* _prepareImageRecognition: "draw", "ocr" or "end"
    timer,        \* the recognition timeout: "unset", "armed", "cleared", "fired"
    engine,       \* the promise of OpticalRecognition, "idle" before the call
    recognition,  \* the promise of _prepareImageRecognition
    index,        \* the promise of FontStorage.prepareFontsIndex
    started,      \* whether the handler of _prepare's promise has run
    symbols,      \* _recognize: res.recognition.symbolsBase64, shared by all fonts
    font,         \* per index entry: its fetch, its alpha and its _compare call
    done,         \* _recognize: the completion counter
    result,       \* _recognize: the FontScores pushed so far
    calls,        \* the invocations of options.progress, in order
    outcome,      \* the promise of _recognize: "pending", "resolved", "rejected"
    delivered,    \* the value it resolved with
    failure,      \* the reason it rejected with
    previous,     \* what the pass before this one on the same inputs delivered
    firstList,    \* _symbolsToDomain on its own: the first list of symbols
    secondList,   \* _symbolsToDomain on its own: the second list of symbols
    given,        \* the two lists as they were before each call made on them
    recognized,   \* _symbolsToBase64 on its own: the symbols of the OCR result
    confidence,   \* _symbolsToBase64 on its own: options.minSymbolConfidence
    extracted,    \* the object it returned, once it has
    pictures,     \* ShapePerception on its own: the two decoded pictures
    dimension,    \* ShapePerception on its own: options.perceptualComparisonSize
    shaped        \* the two matrices and what its promise settled with, once it has

inputs == <<ocr, corpus, progress>>

prepare == <<imgStep, timer, engine, recognition, index, started>>

matching == <<symbols, font, done, result, calls>>

settled == <<outcome, delivered, failure>>

pass == <<inputs, prepare, matching, settled, previous>>

reducer == <<firstList, secondList, given>>

extractor == <<recognized, confidence, extracted>>

shaper == <<pictures, dimension, shaped>>

\* The functions exercised on their own.
units == <<reducer, extractor, shaper>>

vars == <<pass, units>>

Promises == {"pending", "resolved", "rejected"}

\* A font before _recognize's loop reaches it.
IdleFont ==
    [state   |-> "idle",        \* "idle", "fetching", "comparing", "failed"
     alpha   |-> EmptyObject,   \* font.alpha, once fetched
     todo    |-> 0,             \* _compare: todo
     done    |-> 0,             \* _compare: done
     result  |-> EmptyObject,   \* _compare: result
     running |-> EmptyObject,   \* _compare: the symbols whose comparators run,
                                \* each with the two pictures they were given
     failed  |-> {},            \* _compare: the symbols whose comparators rejected
     promise |-> "pending"]     \* the promise of _compare

Fonts == 1..Len(corpus)

Fresh ==
    /\ imgStep = "draw"
    /\ timer = "unset"
    /\ engine = "idle"
    /\ recognition = "pending"
    /\ index = "pending"
    /\ started = FALSE
    /\ symbols = EmptyObject
    /\ font = [i \in Fonts |-> IdleFont]
    /\ done = 0
    /\ result = << >>
    /\ calls = << >>
    /\ outcome = "pending"
    /\ delivered = << >>
    /\ failure = ""

\* The pass, and each function exercised on its own, when not the subject.
NoPass ==
    /\ ocr = << >>
    /\ corpus = << >>
    /\ progress = FALSE
    /\ previous = << >>
    /\ Fresh

NoReducer ==
    /\ firstList = EmptyObject
    /\ secondList = EmptyObject
    /\ given = << >>

NoExtractor ==
    /\ recognized = << >>
    /\ confidence = 0
    /\ extracted = << >>

NoShaper ==
    /\ pictures = << >>
    /\ dimension = 0
    /\ shaped = << >>

Init ==
    /\ ocr \in OcrResults
    /\ corpus \in Corpora
    /\ progress \in BOOLEAN
    /\ previous = << >>
    /\ Fresh
    /\ NoReducer
    /\ NoExtractor
    /\ NoShaper

(***************************************************************************)
(* reject(reason) and resolve(value) on the promise of _recognize: only    *)
(* the first settlement of a promise has an effect.                        *)
(***************************************************************************)
\* As reject would be if a later call replaced the reason of an earlier one.
RejectAgain(reason) ==
    /\ outcome' = IF outcome = "resolved" THEN outcome ELSE "rejected"
    /\ failure' = IF outcome = "resolved" THEN failure ELSE reason
    /\ UNCHANGED delivered

Reject(reason) ==
    /\ outcome' = IF outcome = "pending" THEN "rejected" ELSE outcome
    /\ failure' = IF outcome = "pending" THEN reason ELSE failure
    /\ UNCHANGED delivered

Resolve(value) ==
    /\ outcome' = IF outcome = "pending" THEN "resolved" ELSE outcome
    /\ delivered' = IF outcome = "pending" THEN value ELSE delivered
    /\ UNCHANGED failure

\* A promise after resolve or reject is called on it.
Settle(promise, how) == IF promise = "pending" THEN how ELSE promise

\* As the timeout would stay without the clearTimeout call.
clearTimeoutMissing(t) == t

\* clearTimeout(timeout): a timeout that is set and has not elapsed is
\* cancelled, any other is left as it is.
clearTimeout(t) == IF t = "armed" THEN "cleared" ELSE t

\* As a rejected fetch would end without a catch on its chain.
fetchUncaught(reason) == UNCHANGED settled

\* The catch(reject) that ends the chain on FontStorage.prepareFont's promise.
fetchRejected(reason) == Reject(reason)

\* The catch(reject) that ends the chain on _compare's promise.
compareRejected(reason) == Reject(reason)

(***************************************************************************)
(* _prepareImageRecognition and _prepare.                                  *)
(***************************************************************************)
\* image.draw(url) resolves: the image is binarized, the timeout is set and
\* the OCR engine is called.
ImageDrawn ==
    /\ imgStep = "draw"
    /\ imgStep' = "ocr"
    /\ timer' = "armed"
    /\ engine' = "pending"
    /\ UNCHANGED <<recognition, index, started, inputs, matching, settled, previous, units>>

\* image.draw(url) rejects, and with it _prepareImageRecognition, the
\* Promise.all of _prepare, _prepare and _recognize.
ImageFailed ==
    /\ imgStep = "draw"
    /\ imgStep' = "end"
    /\ recognition' = Settle(recognition, "rejected")
    /\ Reject("Unable to load " \o ImageUrl)
    /\ UNCHANGED <<timer, engine, index, started, inputs, matching, previous, units>>

\* OpticalRecognition resolves: the timeout is cleared and the recognition
\* resolves with the result, unless the timeout has rejected it before.
OcrResolved ==
    /\ imgStep = "ocr"
    /\ imgStep' = "end"
    /\ engine' = "resolved"
    /\ timer' = clearTimeout(timer)
    /\ recognition' = Settle(recognition, "resolved")
    /\ UNCHANGED <<index, started, inputs, matching, settled, previous, units>>

\* OpticalRecognition rejects; the timeout stays set.
OcrRejected ==
    /\ imgStep = "ocr"
    /\ imgStep' = "end"
    /\ engine' = "rejected"
    /\ recognition' = Settle(recognition, "rejected")
    /\ Reject("OCR failed")
    /\ UNCHANGED <<timer, index, started, inputs, matching, previous, units>>

\* The recognition timeout elapses.
Timeout ==
    /\ timer = "armed"
    /\ timer' = "fired"
    /\ recognition' = Settle(recognition, "rejected")
    /\ Reject("Unable to recognize " \o ImageUrl)
    /\ UNCHANGED <<imgStep, engine, index, started, inputs, matching, previous, units>>

\* FontStorage.prepareFontsIndex resolves with the index document.
IndexFetched ==
    /\ index = "pending"
    /\ index' = "resolved"
    /\ UNCHANGED <<imgStep, timer, engine, recognition, started, inputs, matching, settled, previous, units>>

\* FontStorage.prepareFontsIndex rejects: the request fails or the document
\* holds no index array.
IndexFailed ==
    /\ index = "pending"
    /\ index' = "rejected"
    /\ Reject("Bad fonts index " \o IndexUrl)
    /\ UNCHANGED <<imgStep, timer, engine, recognition, started, inputs, matching, previous, units>>

(***************************************************************************)
(* _recognize: the handler of _prepare's promise.  The counters and the    *)
(* result are set up and a fetch is started for every name of the index.   *)
(***************************************************************************)
Recognize ==
    /\ recognition = "resolved"
    /\ index = "resolved"
    /\ ~started
    /\ started' = TRUE
    /\ symbols' = symbolsToBase64(ocr)
    /\ font' = [i \in Fonts |-> [IdleFont EXCEPT !.state = "fetching"]]
    /\ done' = 0
    /\ result' = << >>
    /\ UNCHANGED <<imgStep, timer, engine, recognition, index, calls, inputs, settled, previous, units>>

(***************************************************************************)
(* FontStorage._prepareFont on a fetched document: every alpha value gets  *)
(* the data URL prefix and the document is the font.                       *)
(***************************************************************************)
prepareFont(content) ==
    [content EXCEPT !.alpha = [symbol \in Keys(content.alpha) |->
                                  DataUrl(content.alpha[symbol])]]

(***************************************************************************)
(* Typefont._compare(first, second) as it returns: todo is the number of   *)
(* keys of first, and the two comparators run for every key of first on    *)
(* the pictures the two objects hold under it.                             *)
(***************************************************************************)
compare(first, second) ==
    [todo    |-> Cardinality(Keys(first)),
     done    |-> 0,
     result  |-> EmptyObject,
     running |-> [symbol \in Keys(first) |-> <<first[symbol], Get(second, symbol)>>],
     failed  |-> {},
     promise |-> "pending"]

\* As finalize of _compare would be if it resolved one symbol early.
compareFinalizeEarly(c, symbol, res) ==
    [c EXCEPT !.done = c.done + 1,
              !.result = Put(c.result, symbol, res),
              !.promise = IF c.done + 1 >= c.todo - 1 THEN Settle(c.promise, "resolved")
                          ELSE c.promise]

\* As finalize of _compare would be if it counted without storing.
compareFinalizeCounting(c, symbol, res) ==
    [c EXCEPT !.done = c.done + 1,
              !.promise = IF c.done + 1 = c.todo THEN Settle(c.promise, "resolved")
                          ELSE c.promise]

\* As finalize of _compare would be if it counted a symbol twice.
compareFinalizeTwice(c, symbol, res) ==
    [c EXCEPT !.done = c.done + 2,
              !.result = Put(c.result, symbol, res),
              !.promise = IF c.done + 2 = c.todo THEN Settle(c.promise, "resolved")
                          ELSE c.promise]

\* finalize(symbol, res) of _compare on the call c.
compareFinalize(c, symbol, res) ==
    [c EXCEPT !.done = c.done + 1,
              !.result = Put(c.result, symbol, res),
              !.promise = IF c.done + 1 = c.todo THEN Settle(c.promise, "resolved")
                          ELSE c.promise]

\* As the fraction would be if it were the share of the fonts still to come.
progressRemaining(count, todo) == Rat(todo - count, todo)

\* The fraction finalize of _recognize hands to options.progress.
progressFraction(count, todo) == Rat(count, todo)

\* As the FontScore would be without the default for meta.name.
FontScoreUnnamed(i, name, val, content) ==
    LET meta == IF Has(content, "meta") THEN content.meta ELSE EmptyObject
    IN  [font       |-> i,
         name       |-> Get(meta, "name"),
         similarity |-> average(val),
         meta       |-> meta]

\* The FontScore finalize of _recognize builds from the font's meta.
FontScore(i, name, val, content) ==
    LET meta == IF Has(content, "meta") THEN content.meta ELSE EmptyObject
    IN  [font       |-> i,
         name       |-> IF Truthy(Get(meta, "name")) THEN meta["name"] ELSE name,
         similarity |-> average(val),
         meta       |-> meta]

(***************************************************************************)
(* finalize(name, val, font) of _recognize, for the i-th font.             *)
(***************************************************************************)
\* As finalize would be if the last font resolved the pass without being
\* reported to options.progress.
finalizeUnreported(i, val) ==
    LET todo   == Len(corpus)
        pushed == Append(result, FontScore(i, FontName(i), val, corpus[i].content))
    IN  /\ done' = done + 1
        /\ IF done + 1 = todo
           THEN /\ result' = sort(pushed)
                /\ Resolve(sort(pushed))
                /\ UNCHANGED calls
           ELSE /\ result' = pushed
                /\ calls' = IF progress
                            THEN Append(calls, [name     |-> FontName(i),
                                                val      |-> val,
                                                fraction |-> progressFraction(done, todo)])
                            ELSE calls
                /\ UNCHANGED settled

finalize(i, val) ==
    LET todo   == Len(corpus)
        pushed == Append(result, FontScore(i, FontName(i), val, corpus[i].content))
    IN  /\ calls' = IF progress
                    THEN Append(calls, [name     |-> FontName(i),
                                        val      |-> val,
                                        fraction |-> progressFraction(done, todo)])
                    ELSE calls
        /\ done' = done + 1
        /\ IF done + 1 = todo
           THEN /\ result' = sort(pushed)
                /\ Resolve(sort(pushed))
           ELSE /\ result' = pushed
                /\ UNCHANGED settled

(***************************************************************************)
(* The handler of FontStorage.prepareFont's promise for the i-th font:     *)
(* the fetch failed or the document has no alpha, and the pass is          *)
(* rejected; or the recognized symbols and the font's alpha are reduced    *)
(* to their common keys and _compare is called on them.                    *)
(***************************************************************************)
FontFetched(i) ==
    /\ font[i].state = "fetching"
    /\ IF ~corpus[i].fetched
       THEN /\ font' = [font EXCEPT ![i].state = "failed"]
            /\ fetchRejected("Unable to open " \o FontUrl(i))
            /\ UNCHANGED symbols
       ELSE IF ~Has(corpus[i].content, "alpha")
       THEN /\ font' = [font EXCEPT ![i].state = "failed"]
            /\ fetchRejected("Bad font data file " \o FontUrl(i))
            /\ UNCHANGED symbols
       ELSE LET domain == symbolsToDomain(symbols, prepareFont(corpus[i].content).alpha)
                call   == compare(domain[1], domain[2])
            IN  /\ symbols' = domain[1]
                /\ font' = [font EXCEPT ![i] =
                               [state |-> "comparing", alpha |-> domain[2]] @@ call]
                /\ UNCHANGED settled
    /\ UNCHANGED <<done, result, calls, inputs, prepare, previous, units>>

(***************************************************************************)
(* The Promise.all of the two comparators settles for one symbol of the    *)
(* i-th font: rejected, it rejects _compare and through it the pass;       *)
(* resolved, finalize of _compare counts the symbol and, with the last     *)
(* one, resolves _compare, whose handler is finalize of _recognize.        *)
(***************************************************************************)
SymbolCompared(i, symbol) ==
    /\ font[i].state = "comparing"
    /\ symbol \in Keys(font[i].running)
    /\ LET c    == font[i]
           res  == CompareSymbol(c.running[symbol][1], c.running[symbol][2])
           rest == Restrict(c.running, Keys(c.running) \ {symbol})
       IN  IF ~res.ok
           THEN /\ font' = [font EXCEPT ![i].running = rest,
                                        ![i].failed = c.failed \cup {symbol},
                                        ![i].promise = Settle(c.promise, "rejected")]
                /\ IF c.promise = "pending"
                   THEN compareRejected(res.reason)
                   ELSE UNCHANGED settled
                /\ UNCHANGED <<done, result, calls>>
           ELSE LET c1 == compareFinalize([c EXCEPT !.running = rest], symbol, res.score)
                IN  /\ font' = [font EXCEPT ![i] = c1]
                    /\ IF c.promise = "pending" /\ c1.promise = "resolved"
                       THEN finalize(i, c1.result)
                       ELSE UNCHANGED <<done, result, calls, settled>>
    /\ UNCHANGED <<symbols, inputs, prepare, previous, units>>

(***************************************************************************)
(* The pass has nothing left to run: no load, OCR call, timer, fetch or    *)
(* comparator is outstanding and no handler is due.                        *)
(***************************************************************************)
Quiescent ==
    /\ imgStep = "end"
    /\ timer # "armed"
    /\ index # "pending"
    /\ ~(recognition = "resolved" /\ index = "resolved" /\ ~started)
    /\ \A i \in Fonts : font[i].state # "fetching" /\ Keys(font[i].running) = {}

\* Typefont is called again on the same image, options and corpus.
Again ==
    /\ Quiescent
    /\ previous' = IF outcome = "resolved" THEN <<delivered>> ELSE previous
    /\ imgStep' = "draw"
    /\ timer' = "unset"
    /\ engine' = "idle"
    /\ recognition' = "pending"
    /\ index' = "pending"
    /\ started' = FALSE
    /\ symbols' = EmptyObject
    /\ font' = [i \in Fonts |-> IdleFont]
    /\ done' = 0
    /\ result' = << >>
    /\ calls' = << >>
    /\ outcome' = "pending"
    /\ delivered' = << >>
    /\ failure' = ""
    /\ UNCHANGED <<inputs, units>>

Next ==
    \/ ImageDrawn
    \/ ImageFailed
    \/ OcrResolved
    \/ OcrRejected
    \/ Timeout
    \/ IndexFetched
    \/ IndexFailed
    \/ Recognize
    \/ \E i \in Fonts : FontFetched(i)
    \/ \E i \in Fonts : \E symbol \in Keys(font[i].running) : SymbolCompared(i, symbol)
    \/ Again

Spec == Init /\ [][Next]_vars

(***************************************************************************)
(* Properties of a pass.                                                   *)
(***************************************************************************)
\* The recognized symbols as _symbolsToBase64 made them.
Recognized == symbolsToBase64(ocr)

\* The symbols the i-th font is compared over: those _compare started
\* comparators for.
Compared(i) == Keys(font[i].running) \cup Keys(font[i].result) \cup font[i].failed

\* The processing of the i-th font has failed: its fetch, its document or
\* one of its comparators.
FontFailed(i) == font[i].state = "failed" \/ font[i].failed # {}

\* The similarity a ranked list holds for the i-th font.
SimilarityOf(list, i) == list[CHOOSE j \in 1..Len(list) : list[j].font = i].similarity

\* C1: every font is compared over the keys that the recognized symbols, as
\* the OCR result gave them, share with its own alpha, whatever the other
\* fonts have been reduced against before.
C1_IndependentDomains ==
    \A i \in Fonts :
        font[i].state = "comparing" =>
            Compared(i) = Keys(Recognized) \cap Keys(corpus[i].content.alpha)

\* C2: a _compare call over an empty domain is resolved, with an empty
\* aggregate, as soon as it is made.
C2_EmptyDomainResolves ==
    \A i \in Fonts :
        (font[i].state = "comparing" /\ font[i].todo = 0) =>
            (font[i].promise = "resolved" /\ font[i].result = EmptyObject)

\* C3: once every load, OCR call, fetch and comparator of a pass has
\* completed, the pass is settled, and no similarity it computed is an
\* average over zero symbols.
C3_PassSettles ==
    /\ Quiescent => outcome # "pending"
    /\ \A j \in 1..Len(result) : ~IsNaN(result[j].similarity)

\* The corpus of scenario C on the glyphs it is written for.
ScenarioC ==
    /\ corpus = <<SameFont, InverseFont>>
    /\ Recognized = prepareFont(SameFont.content).alpha

\* C4: a delivered list holds one FontScore for every entry of the index
\* and is sorted by similarity, highest first; in scenario C it is
\* [Font1(100), Font2(0)].
C4_RankedList ==
    outcome = "resolved" =>
        /\ Len(delivered) = Len(corpus)
        /\ \A i \in Fonts : Cardinality({j \in 1..Len(delivered) : delivered[j].font = i}) = 1
        /\ \A j \in 1..Len(delivered) : \A k \in j..Len(delivered) :
              RLeq(delivered[k].similarity, delivered[j].similarity)
        /\ ScenarioC =>
              /\ delivered[1].font = 1 /\ delivered[1].similarity = Num(100)
              /\ delivered[2].font = 2 /\ delivered[2].similarity = Num(0)

\* Scenario C delivered after Font2 completed first.
C4_Witness ==
    /\ outcome = "resolved"
    /\ ScenarioC
    /\ progress
    /\ calls[1].name = FontName(2)

\* C5: the j-th invocation of the progress callback reports j fonts out of
\* the corpus size.
C5_FractionAfterCount ==
    \A j \in 1..Len(calls) : calls[j].fraction = Rat(j, Len(corpus))

\* C6: when a list is delivered the progress callback has been invoked
\* once for every font, with strictly increasing fractions.
C6_ProgressOncePerFont ==
    (outcome = "resolved" /\ progress) =>
        /\ Len(calls) = Len(corpus)
        /\ \A i \in Fonts :
              Cardinality({j \in 1..Len(calls) : calls[j].name = FontName(i)}) = 1
        /\ \A j \in 1..(Len(calls) - 1) : RLess(calls[j].fraction, calls[j + 1].fraction)

\* A list delivered for two fonts, the second one reported first.
C6_Witness ==
    /\ outcome = "resolved"
    /\ progress
    /\ Len(calls) = 2
    /\ calls[1].name = FontName(2)
    /\ calls[2].name = FontName(1)

\* C7: once the processing of a font has failed the pass is rejected and
\* nothing is delivered.
C7_FontFailureAborts ==
    \A i \in Fonts : FontFailed(i) => (outcome = "rejected" /\ delivered = << >>)

\* A font has failed, another one has been scored, and nothing is left to run.
C7_Witness ==
    /\ Quiescent
    /\ \E i \in Fonts : font[i].state = "failed"
    /\ \E i \in Fonts : font[i].promise = "resolved"

\* C8: a _compare call one of whose comparators rejected is rejected.
C8_ComparatorFailureRejects ==
    \A i \in Fonts : font[i].failed # {} => font[i].promise = "rejected"

\* A comparator has rejected after another symbol of the font was scored.
C8_Witness ==
    \E i \in Fonts :
        /\ font[i].failed # {}
        /\ Keys(font[i].result) # {}
        /\ Keys(font[i].running) = {}

\* C10: a pass that delivers after an earlier pass on the same image and
\* corpus delivered gives every font the similarity the earlier one gave it.
C10_SameSimilarities ==
    (outcome = "resolved" /\ previous # << >>) =>
        \A i \in Fonts : SimilarityOf(delivered, i) = SimilarityOf(previous[1], i)


\* The sum of the numbers f[k] for k in S.
RECURSIVE SumOf(_, _)
SumOf(f, S) ==
    IF S = {} THEN Num(0)
    ELSE LET k == CHOOSE x \in S : TRUE
         IN  RAdd(f[k], SumOf(f, S \ {k}))

\* C11: the similarity of every FontScore pushed for a font with a
\* non-empty aggregate is the arithmetic mean, over the symbols of the
\* aggregate, of (analytic + shape) / 2: 2 * n times the similarity is the
\* sum of all analytic and all shape scores of the n symbols.
C11_MeanOfSymbolScores ==
    \A j \in 1..Len(result) :
        LET agg == font[result[j].font].result
            n   == Cardinality(Keys(agg))
        IN  n > 0 =>
                RMul(result[j].similarity, Num(2 * n)) =
                    RAdd(SumOf([k \in Keys(agg) |-> agg[k].analytic], Keys(agg)),
                         SumOf([k \in Keys(agg) |-> agg[k].shape], Keys(agg)))

\* A FontScore pushed for an aggregate of two symbols with different scores.
C11_Witness ==
    \E j \in 1..Len(result) :
        LET agg == font[result[j].font].result
        IN  \E k, l \in Keys(agg) : agg[k].shape # agg[l].shape

\* A number from 0 to 100.
Percentage(x) == ~IsNaN(x) /\ RLeq(Num(0), x) /\ RLeq(x, Num(100))

\* C12: every similarity lies in [0, 100]: the analytic and shape scores
\* of every aggregate, those handed to options.progress, and the similarity
\* of every FontScore pushed, whatever the two glyph sets have in common.
C12_SimilaritiesInRange ==
    /\ \A i \in Fonts : \A k \in Keys(font[i].result) :
           Percentage(font[i].result[k].analytic) /\ Percentage(font[i].result[k].shape)
    /\ \A c \in 1..Len(calls) : \A k \in Keys(calls[c].val) :
           Percentage(calls[c].val[k].analytic) /\ Percentage(calls[c].val[k].shape)
    /\ \A j \in 1..Len(result) : Percentage(result[j].similarity)

\* A FontScore was pushed and handed to options.progress while another
\* font has no symbol in common with the recognized ones.
C12_Witness ==
    /\ result # << >>
    /\ calls # << >>
    /\ \E i \in Fonts : font[i].state = "comparing" /\ font[i].todo = 0

\* C16: once the recognition timeout has elapsed the recognition and the
\* pass are rejected, and stay so when the OCR result arrives afterwards;
\* when the OCR engine returns its result before the timeout, the timeout
\* is cancelled, never elapses and the recognition is resolved.
C16_RecognitionTimeout ==
    /\ timer = "fired" => (recognition = "rejected" /\ outcome = "rejected")
    /\ (engine = "resolved" /\ timer # "fired") =>
           (timer = "cleared" /\ recognition = "resolved")

\* The timeout elapsed first and the OCR result arrived afterwards.
C16_Witness ==
    /\ timer = "fired"
    /\ engine = "resolved"
    /\ failure = "Unable to recognize " \o ImageUrl

\* A failure is raised in a step: the recognition, the fonts index, a
\* font's fetch or one of its comparisons fails.
Raised ==
    \/ recognition # "rejected" /\ recognition' = "rejected"
    \/ index # "rejected" /\ index' = "rejected"
    \/ \E i \in Fonts : ~FontFailed(i) /\ FontFailed(i)'

\* C17: a pass never has both a delivered list and a failure reason; a
\* pass that is settled stays as it is, whatever fails or finishes later;
\* and a failure raised while the pass is pending rejects it, with the
\* failing font's file in the reason when it is a fetch that failed.
C17_OneOutcome ==
    /\ [](/\ outcome = "pending" => (delivered = << >> /\ failure = "")
          /\ outcome = "resolved" => failure = ""
          /\ outcome = "rejected" => delivered = << >>)
    /\ [][/\ (outcome # "pending" /\ outcome' # "pending") => UNCHANGED settled
          /\ (outcome = "pending" /\ Raised) => outcome' = "rejected"
          /\ \A i \in Fonts :
                (outcome = "pending" /\ font[i].state = "fetching" /\ font'[i].state = "failed")
                    => failure' \in {"Unable to open " \o FontUrl(i),
                                     "Bad font data file " \o FontUrl(i)}]_vars

\* Two fonts of one pass have failed.
C17_Witness ==
    /\ outcome = "rejected"
    /\ \E i, j \in Fonts : i # j /\ FontFailed(i) /\ FontFailed(j)

\* C18: a resolved _compare holds one score, with an analytic and a shape
\* part, for every key of the domain it was called on, and none of its
\* comparisons is running or has failed, whatever has become of the
\* recognized symbols since.
C18_AggregateComplete ==
    \A i \in Fonts :
        font[i].promise = "resolved" =>
            /\ Keys(font[i].result) = Keys(font[i].alpha)
            /\ font[i].done = font[i].todo
            /\ Keys(font[i].running) = {}
            /\ font[i].failed = {}
            /\ \A k \in Keys(font[i].result) :
                   DOMAIN font[i].result[k] = {"analytic", "shape"}

\* A _compare resolved on two symbols of which the recognized symbols,
\* reduced against another font meanwhile, have lost one.
C18_Witness ==
    \E i \in Fonts :
        /\ font[i].promise = "resolved"
        /\ Cardinality(Keys(font[i].result)) = 2
        /\ Cardinality(Keys(symbols)) = 1

\* C20: every FontScore of a delivered list has a name, that of the font's
\* meta where the meta gives one and the font's name in the index where
\* not, and a similarity; every font of the index has its FontScore,
\* with or without a meta in its document.
C20_NamedFontScores ==
    outcome = "resolved" =>
        /\ \A i \in Fonts : \E j \in 1..Len(delivered) : delivered[j].font = i
        /\ \A j \in 1..Len(delivered) :
               LET content == corpus[delivered[j].font].content
                   named   == /\ Has(content, "meta")
                              /\ "name" \in Keys(content.meta)
                              /\ content.meta["name"] # ""
               IN  /\ delivered[j].name = IF named THEN content.meta["name"]
                                          ELSE FontName(delivered[j].font)
                   /\ ~IsNaN(delivered[j].similarity)

\* A list delivered for a font without meta and a font whose meta names it.
C20_Witness ==
    /\ outcome = "resolved"
    /\ \E j \in 1..Len(delivered) : ~Has(corpus[delivered[j].font].content, "meta")
    /\ \E j \in 1..Len(delivered) : delivered[j].name \notin {FontName(i) : i \in Fonts}

\* C21: whenever a ranked list is delivered, options.progress has been
\* invoked for every font of the list and is not invoked any more: a
\* delivered list has as many invocations as entries, one naming each
\* entry's font, and none without the option.
C21_ProgressBeforeDelivery ==
    outcome = "resolved" =>
        IF progress
        THEN /\ Len(calls) = Len(delivered)
             /\ \A j \in 1..Len(delivered) :
                    \E c \in 1..Len(calls) : calls[c].name = FontName(delivered[j].font)
        ELSE calls = << >>

\* A list of two fonts delivered, both reported, the first font first.
C21_Witness ==
    /\ outcome = "resolved"
    /\ progress
    /\ Len(delivered) = 2
    /\ Len(calls) = 2
    /\ calls[1].name = FontName(1)

\* C22: the counter of _recognize is the number of fonts whose _compare
\* has resolved and never exceeds the size of the index; the counter of
\* every _compare is the number of symbols it has stored, none of them
\* still running, and never exceeds the size of its domain.
C22_CountersWithinBounds ==
    /\ done <= Len(corpus)
    /\ done = Cardinality({i \in Fonts : font[i].promise = "resolved"})
    /\ done = Len(result)
    /\ \A i \in Fonts :
           /\ font[i].done <= font[i].todo
           /\ font[i].done = Cardinality(Keys(font[i].result))
           /\ Keys(font[i].result) \cap Keys(font[i].running) = {}
           /\ font[i].promise = "resolved" => font[i].done = font[i].todo

\* Both counters have reached their sizes: two fonts, one of two symbols.
C22_Witness ==
    /\ done = 2
    /\ Len(corpus) = 2
    /\ \E i \in Fonts : font[i].done = 2 /\ font[i].todo = 2

(***************************************************************************)
(* _symbolsToDomain on its own: called on any two lists of symbols, and    *)
(* called again on the lists it has left.  A list of symbols holds data    *)
(* URLs under its keys, as _symbolsToBase64 and _prepareFont make them.    *)
(***************************************************************************)
Labels == {"a", "b", "c"}

Glyphs == {DataUrl("W"), DataUrl("B"), DataUrl("")}

SymbolLists == UNION {[keys -> Glyphs] : keys \in SUBSET Labels}

\* The calls made on one pair of lists.
MaxCalls == 2

DomainInit ==
    /\ firstList \in SymbolLists
    /\ secondList \in SymbolLists
    /\ given = << >>
    /\ NoPass
    /\ NoExtractor
    /\ NoShaper

Reduce ==
    /\ Len(given) < MaxCalls
    /\ firstList' = symbolsToDomain(firstList, secondList)[1]
    /\ secondList' = symbolsToDomain(firstList, secondList)[2]
    /\ given' = Append(given, <<firstList, secondList>>)
    /\ UNCHANGED <<pass, extractor, shaper>>

DomainNext == Reduce

DomainSpec == DomainInit /\ [][DomainNext]_vars

\* C9: after _symbolsToDomain both lists have the same keys, the keys the
\* two lists had in common before the first call.
C9_CommonKeys ==
    given # << >> =>
        /\ Keys(firstList) = Keys(secondList)
        /\ Keys(firstList) = Keys(given[1][1]) \cap Keys(given[1][2])

\* One call on two lists that each had a key of their own and one in common.
C9_Witness ==
    /\ Len(given) = 1
    /\ Keys(given[1][1]) \ Keys(given[1][2]) # {}
    /\ Keys(given[1][2]) \ Keys(given[1][1]) # {}
    /\ Keys(firstList) # {}

\* C23: _symbolsToDomain adds no key to either list and leaves the value
\* under every key it keeps as it was; called again on the two lists it
\* has left, it changes neither.
C23_OnlyRemoves ==
    /\ given # << >> =>
           /\ Keys(firstList) \subseteq Keys(given[Len(given)][1])
           /\ Keys(secondList) \subseteq Keys(given[Len(given)][2])
           /\ \A key \in Keys(firstList) : firstList[key] = given[Len(given)][1][key]
           /\ \A key \in Keys(secondList) : secondList[key] = given[Len(given)][2][key]
    /\ Len(given) > 1 =>
           /\ firstList = given[Len(given)][1]
           /\ secondList = given[Len(given)][2]

\* Two calls on lists that had a common key with different values and a
\* key each of their own.
C23_Witness ==
    /\ Len(given) = 2
    /\ \E key \in Keys(firstList) : firstList[key] # secondList[key]
    /\ Keys(given[1][1]) # Keys(firstList)
    /\ Keys(given[1][2]) # Keys(secondList)

(***************************************************************************)
(* _symbolsToBase64 on its own: called on any OCR result of a few symbols  *)
(* and any minimum confidence.  The crop of a symbol is the picture under  *)
(* its bounding box, told apart here by the symbol's place in the result.  *)
(***************************************************************************)
\* The symbols of one OCR result.
MaxSymbols == 3

Texts == {"a", "b"}

Confidences == {10, 15, 90}

MinConfidences == {0, 15, 50}

\* The OCR results of n symbols.
RECURSIVE Recognitions(_)
Recognitions(n) ==
    IF n = 0 THEN {<< >>}
    ELSE {Append(r, Symbol(t, c, ToString(n))) :
              r \in Recognitions(n - 1), t \in Texts, c \in Confidences}

ExtractInit ==
    /\ recognized \in UNION {Recognitions(n) : n \in 0..MaxSymbols}
    /\ confidence \in MinConfidences
    /\ extracted = << >>
    /\ NoPass
    /\ NoReducer
    /\ NoShaper

Extract ==
    /\ extracted = << >>
    /\ extracted' = <<symbolsToBase64With(recognized, confidence)>>
    /\ UNCHANGED <<recognized, confidence, pass, reducer, shaper>>

ExtractNext == Extract

ExtractSpec == ExtractInit /\ [][ExtractNext]_vars

\* The places of the symbols of the result that have a text.
Occurrences(text) == {i \in 1..Len(recognized) : recognized[i].text = text}

\* Those of at least the minimum confidence.
Accepted(text) == {i \in Occurrences(text) : recognized[i].confidence >= confidence}

\* The largest of a non-empty set of places.
Last(places) == CHOOSE i \in places : \A j \in places : j <= i

\* C13: the glyph set holds, under every label it has, the crop of an
\* occurrence of that label whose confidence is at least the threshold,
\* and it has no label all of whose occurrences are below the threshold.
C13_OnlyConfidentSymbols ==
    extracted # << >> =>
        /\ \A text \in Keys(extracted[1]) :
               \E i \in Accepted(text) : extracted[1][text] = recognized[i].crop
        /\ \A i \in 1..Len(recognized) :
               Accepted(recognized[i].text) = {} => recognized[i].text \notin Keys(extracted[1])

\* The glyph set of a result in which one label is only below the threshold
\* and another is both below and at or above it.
C13_Witness ==
    /\ extracted # << >>
    /\ \E i \in 1..Len(recognized) : Accepted(recognized[i].text) = {}
    /\ \E i \in 1..Len(recognized) :
           /\ Accepted(recognized[i].text) # {}
           /\ Accepted(recognized[i].text) # Occurrences(recognized[i].text)

\* C14 as stated: under every label it has, the glyph set holds the crop
\* of the last occurrence of that label in the OCR sequence.
C14_LastOccurrence ==
    extracted # << >> =>
        \A text \in Keys(extracted[1]) :
            extracted[1][text] = recognized[Last(Occurrences(text))].crop

\* C14, amended: under every label it has, the glyph set holds only the
\* crop of the last occurrence of that label among those whose confidence
\* is at least the threshold.
C14_LastAcceptedOccurrence ==
    extracted # << >> =>
        \A text \in Keys(extracted[1]) :
            extracted[1][text] = recognized[Last(Accepted(text))].crop

\* A label accepted twice and then met once more below the threshold.
C14_Witness ==
    /\ extracted # << >>
    /\ \E text \in Keys(extracted[1]) :
           /\ Cardinality(Accepted(text)) > 1
           /\ Last(Occurrences(text)) \notin Accepted(text)

(***************************************************************************)
(* ShapePerception._compare on its own: called on any two pictures of a    *)
(* few black or white pixels, of any natural width and height, with any    *)
(* perceptualComparisonSize from 0 on.                                     *)
(***************************************************************************)
\* The pixels of one picture.
MaxPixels == 4

Levels == {0, 255}

\* The pictures of h rows of w pixels.
PicturesOf(h, w) == [1..h -> [1..w -> Levels]]

Pictures ==
    UNION {PicturesOf(hw[1], hw[2]) :
              hw \in {x \in (1..MaxPixels) \X (1..MaxPixels) : x[1] * x[2] <= MaxPixels}}

Dimensions == 0..perceptualComparisonSize

ShapeInit ==
    /\ pictures \in Pictures \X Pictures
    /\ dimension \in Dimensions
    /\ shaped = << >>
    /\ NoPass
    /\ NoReducer
    /\ NoExtractor

Shape ==
    /\ shaped = << >>
    /\ shaped' = <<shapeCompare(preparePictures(pictures[1], pictures[2], dimension))>>
    /\ UNCHANGED <<pictures, dimension, pass, reducer, extractor>>

ShapeNext == Shape

ShapeSpec == ShapeInit /\ [][ShapeNext]_vars

\* A matrix of n rows of n entries.
Square(m, n) == Len(m) = n /\ \A i \in 1..n : Len(m[i]) = n

\* The positions of two n x n matrices at which they differ.
Differing(m, m1, n) == {p \in (1..n) \X (1..n) : m[p[1]][p[2]] # m1[p[1]][p[2]]}

\* C15: on two n x n bit matrices that differ in d positions the promise
\* resolves with 100 - (d / (n * n)) * 100: with 100 for identical
\* matrices, 0 for fully inverted ones and 75 for 2 x 2 matrices that
\* differ in one position.
C15_HammingSimilarity ==
    \A n \in 1..MaxPixels :
        (shaped # << >> /\ Square(shaped[1].matrix, n) /\ Square(shaped[1].matrix1, n)) =>
            LET d == Cardinality(Differing(shaped[1].matrix, shaped[1].matrix1, n))
            IN  /\ shaped[1].ok
                /\ shaped[1].similarity = RSub(Num(100), RMul(Rat(d, n * n), Num(100)))
                /\ d = 0 => shaped[1].similarity = Num(100)
                /\ d = n * n => shaped[1].similarity = Num(0)
                /\ (n = 2 /\ d = 1) => shaped[1].similarity = Num(75)

\* Two 2 x 2 matrices that differ in one position were compared.
C15_Witness ==
    /\ shaped # << >>
    /\ Square(shaped[1].matrix, 2)
    /\ Square(shaped[1].matrix1, 2)
    /\ Cardinality(Differing(shaped[1].matrix, shaped[1].matrix1, 2)) = 1

\* C19: whatever the perceptualComparisonSize and the natural sizes of the
\* two pictures, the two bit matrices have the same number of rows and of
\* columns, so the loop never reads a position only one of them has.
C19_EqualSizedMatrices ==
    shaped # << >> =>
        /\ Len(shaped[1].matrix) = Len(shaped[1].matrix1)
        /\ \A i \in 1..Len(shaped[1].matrix) :
               Len(shaped[1].matrix[i]) = Len(shaped[1].matrix1[i])

====
